---- MODULE Spec2Model ----
(***************************************************************************)
(* One invocation of the pyencrypt command-line client                     *)
(* (src/client_example.py): main() resolves the arguments from the         *)
(* persisted configuration file and the command line, dispatches to one    *)
(* cmd_* handler, the handler drives EncryptionClient, and the process     *)
(* ends with an exit code.                                                 *)
(*                                                                         *)
(* Strings are tuples of one-character strings, so that rstrip, lower,     *)
(* endswith and basename are computed.  A Python value that may be None,   *)
(* a str or an int is a tagged record.  A dict is a function whose DOMAIN  *)
(* is the set of keys present.                                             *)
(***************************************************************************)
EXTENDS Integers, Sequences, FiniteSets, TLC

VARIABLES
    pc,         \* position of the process: start, dispatch, await, await_download, exit
    args,       \* the argparse namespace main() hands to the handler
    fs,         \* the local files named on the command line: missing, unreadable or ok
    requests,   \* every HTTP request handed to the transport, in order
    response,   \* what the transport returned for the first request
    download,   \* what became of the download request
    openFiles,  \* the file handles currently open, in the order they were opened
    exitCode,   \* the exit code of the process, -1 while it runs
    out,        \* the lines printed, as tags
    \* load_config, save_config and the argument defaults of main(), on their own
    cstep,      \* position: idle, start, saved, loaded, resolved
    disk,       \* the configuration file as it is on disk
    saved,      \* the configuration handed to save_config
    saveOk,     \* what save_config returned
    loaded,     \* what load_config returned
    cli,        \* the command line parsed against the loaded configuration
    resolved,   \* the namespace parse_args gave and the client built from it
    \* EncryptionClient.download_result on its own
    dstep,      \* position: idle, start, streaming, done, failed
    target,     \* the filename and output_dir download_result was called with
    body,       \* the bytes of the response body
    received,   \* the chunks iter_content has yielded, in order
    localFile,  \* the content of the file at the output path, None if there is none
    returned    \* the path download_result returned

mainvars == <<pc, args, fs, requests, response, download, openFiles, exitCode, out>>
cvars == <<cstep, disk, saved, saveOk, loaded, cli, resolved>>
dvars == <<dstep, target, body, received, localFile, returned>>
vars == <<mainvars, cvars, dvars>>

(***************************************************************************)
(* Bounds of the model.                                                    *)
(***************************************************************************)
MaxFiles == 2      \* longest list of --files
MaxBody == 3       \* longest response body of a download, in bytes
ChunkSize == 2     \* most bytes in one chunk (the code asks for chunks of 8192)

(***************************************************************************)
(* Python values.                                                          *)
(***************************************************************************)
None == [tag |-> "none"]
StrVal(s) == [tag |-> "str", v |-> s]
IntVal(n) == [tag |-> "int", v |-> n]
ListVal(l) == [tag |-> "list", v |-> l]

\* Python truth value: None, "" and 0 are false.
Truthy(x) ==
    CASE x.tag = "none" -> FALSE
      [] x.tag = "str" -> x.v # <<>>
      [] x.tag = "int" -> x.v # 0

EmptyDict == [k \in {} |-> None]

Range(s) == {s[i] : i \in 1..Len(s)}

\* str.rstrip(c)
RECURSIVE rstrip(_, _)
rstrip(s, c) ==
    IF s = <<>> THEN s
    ELSE IF s[Len(s)] = c THEN rstrip(SubSeq(s, 1, Len(s) - 1), c)
    ELSE s

\* str.lower() on the letters the file names of the model use
LowerChar(c) ==
    CASE c = "Z" -> "z"
      [] c = "I" -> "i"
      [] c = "P" -> "p"
      [] OTHER -> c

lower(s) == [i \in 1..Len(s) |-> LowerChar(s[i])]

\* str.endswith(suffix)
endswith(s, suffix) ==
    /\ Len(suffix) <= Len(s)
    /\ SubSeq(s, Len(s) - Len(suffix) + 1, Len(s)) = suffix

\* os.path.basename: what follows the last "/"
RECURSIVE basename(_)
basename(p) ==
    IF p = <<>> THEN <<>>
    ELSE IF p[Len(p)] = "/" THEN <<>>
    ELSE Append(basename(SubSeq(p, 1, Len(p) - 1)), p[Len(p)])

(***************************************************************************)
(* The persisted configuration file and load_config.                       *)
(***************************************************************************)
DefaultTimeout == 300

DefaultBaseUrl ==
    <<"h","t","t","p",":","/","/","l","o","c","a","l","h","o","s","t",":","5","0","0","0">>

ConfigKeys == {"base_url", "python_version", "timeout"}

default_config ==
    [base_url |-> StrVal(DefaultBaseUrl), python_version |-> None, timeout |-> IntVal(DefaultTimeout)]

\* What json.load gives for a JSON object: each key absent, null or set.
FileBaseUrls == {None, StrVal(<<"u", "/">>)}
FileTimeouts == {None, IntVal(60)}
FilePythonVersions == {None, StrVal(<<>>), StrVal(<<"3",".","9">>)}

FileValues(k) ==
    CASE k = "base_url" -> FileBaseUrls
      [] k = "python_version" -> FilePythonVersions
      [] k = "timeout" -> FileTimeouts

JsonObjects ==
    UNION {
        {o \in [ks -> FileBaseUrls \cup FileTimeouts \cup FilePythonVersions] :
            \A k \in ks : o[k] \in FileValues(k)} : ks \in SUBSET ConfigKeys}

\* The file: missing, not readable as JSON, JSON that is no object, or an object.
\* "keylist" is the JSON list (or string) that holds all three key names.
ConfigFiles ==
    {[kind |-> k, obj |-> EmptyDict] : k \in {"missing", "invalid", "nondict", "keylist"}}
        \cup {[kind |-> "object", obj |-> o] : o \in JsonObjects}

\* Variant: the defaults are written over the keys of the file.
MergeDefaults_DefaultsWin(config) ==
    [k \in DOMAIN config \cup ConfigKeys |->
        IF k \in ConfigKeys THEN default_config[k] ELSE config[k]]

\* The merge loop of load_config on a dict.
MergeDefaults(config) ==
    [k \in DOMAIN config \cup ConfigKeys |->
        IF k \in DOMAIN config THEN config[k] ELSE default_config[k]]

\* load_config: [dict |-> TRUE, d |-> the dict returned], or the non-dict
\* json.load gave when no assignment into it was needed.
load_config(file) ==
    CASE file.kind = "missing" -> [dict |-> TRUE, d |-> default_config]
      [] file.kind = "invalid" -> [dict |-> TRUE, d |-> default_config]
      [] file.kind = "nondict" -> [dict |-> TRUE, d |-> default_config]
      [] file.kind = "keylist" -> [dict |-> FALSE, d |-> EmptyDict]
      [] file.kind = "object" -> [dict |-> TRUE, d |-> MergeDefaults(file.obj)]

\* dict.get(key, default)
Get(d, key, default) == IF key \in DOMAIN d THEN d[key] ELSE default

(***************************************************************************)
(* The command line.  None is "option not given".                          *)
(***************************************************************************)
CliBaseUrls == {None, StrVal(<<"g">>)}
CliTimeouts == {None, IntVal(5)}
CliPythonVersions == {None, StrVal(<<>>), StrVal(<<"3", ".", "8">>)}
CliOutputs == {None, StrVal(<<>>), StrVal(<<"d">>)}

\* --file of encrypt-file
SinglePaths ==
    { <<"m", ".", "p", "y">>,
      <<"p", ".", "z", "i", "p">>,
      <<"P", ".", "Z", "I", "P">>,
      <<"d", "/", "x", ".", "Z", "i", "p">>,
      <<"p", ".", "z", "i", "p", "/", "m", ".", "p", "y">>,
      <<"z", "i", "p">>,
      <<".", "z", "i", "p">>,
      <<"p", ".", "z", "i", "p", "x">> }

\* --files of encrypt-files and encrypt-code
MultiPaths == { <<"m", ".", "p", "y">>, <<"p", ".", "z", "i", "p">> }

FileLists == UNION {[1..n -> MultiPaths] : n \in 1..MaxFiles}

TextName == <<"t", ".", "p", "y">>
TextContent == <<"x">>
OutputName == <<"e", ".", "z", "i", "p">>
CurrentDir == <<".">>

Commands ==
    {"init", "config", "status", "versions", "encrypt-file", "encrypt-files",
     "encrypt-code", "encrypt-text", "list", "download", "delete"}

EncryptCommands == {"encrypt-file", "encrypt-files", "encrypt-code", "encrypt-text"}

NoArgs ==
    [command |-> "", base_url |-> None, timeout |-> None, python_version |-> None,
     output |-> None, file |-> <<>>, files |-> <<>>, name |-> <<>>, content |-> <<>>,
     filename |-> <<>>]

\* The command lines of the model: the global options with one verb and its options.
Argvs ==
    LET Global == {[NoArgs EXCEPT !.base_url = b, !.timeout = t] :
                      b \in CliBaseUrls, t \in CliTimeouts}
        Upload == {[g EXCEPT !.python_version = v, !.output = o] :
                      g \in Global, v \in CliPythonVersions, o \in CliOutputs}
    IN  Global
        \cup {[g EXCEPT !.command = c] :
                  g \in Global, c \in {"init", "config", "status", "versions", "list"}}
        \cup {[g EXCEPT !.command = "encrypt-file", !.file = p] :
                  g \in Upload, p \in SinglePaths}
        \cup {[g EXCEPT !.command = c, !.files = l] :
                  g \in Upload, c \in {"encrypt-files", "encrypt-code"}, l \in FileLists}
        \cup {[g EXCEPT !.command = "encrypt-text", !.name = TextName,
                         !.content = TextContent] : g \in Upload}
        \cup {[g EXCEPT !.command = "download", !.filename = OutputName, !.output = o] :
                  g \in Global, o \in {None, StrVal(<<"d">>)}}
        \cup {[g EXCEPT !.command = "delete", !.filename = OutputName] : g \in Global}

\* The local paths a command line names.
PathsOf(argv) ==
    IF argv.command = "encrypt-file" THEN {argv.file} ELSE Range(argv.files)

FileStates == {"missing", "unreadable", "ok"}

\* Variant: the timeout is read from the configuration, --timeout is ignored.
ParseArgs_ConfigTimeout(config, argv) ==
    [argv EXCEPT
        !.base_url = IF argv.base_url # None THEN argv.base_url
                     ELSE Get(config, "base_url", StrVal(DefaultBaseUrl)),
        !.timeout = Get(config, "timeout", IntVal(DefaultTimeout)),
        !.python_version =
            IF argv.command \notin EncryptCommands THEN None
            ELSE IF argv.python_version # None THEN argv.python_version
            ELSE Get(config, "python_version", None),
        !.output = IF argv.command = "download" /\ argv.output = None
                   THEN StrVal(CurrentDir) ELSE argv.output]

\* parser.parse_args(): an option given on the command line wins, otherwise the
\* default main() took from the loaded configuration.
ParseArgs(config, argv) ==
    [argv EXCEPT
        !.base_url = IF argv.base_url # None THEN argv.base_url
                     ELSE Get(config, "base_url", StrVal(DefaultBaseUrl)),
        !.timeout = IF argv.timeout # None THEN argv.timeout
                    ELSE Get(config, "timeout", IntVal(DefaultTimeout)),
        !.python_version =
            IF argv.command \notin EncryptCommands THEN None
            ELSE IF argv.python_version # None THEN argv.python_version
            ELSE Get(config, "python_version", None),
        !.output = IF argv.command = "download" /\ argv.output = None
                   THEN StrVal(CurrentDir) ELSE argv.output]

(***************************************************************************)
(* EncryptionClient: each operation as the request it hands to the         *)
(* transport.                                                              *)
(***************************************************************************)
\* EncryptionClient.__init__ (base_url is a str: None has no rstrip)
EncryptionClient(base_url, timeout) ==
    [base_url |-> rstrip(base_url.v, "/"), timeout |-> timeout]

\* What _request, _download and the two requests.post calls pass to requests.
HttpRequest(client, method, endpoint, arg) ==
    [method |-> method, endpoint |-> endpoint, arg |-> arg,
     base_url |-> client.base_url, timeout |-> client.timeout,
     encoding |-> "none", files |-> <<>>, data |-> EmptyDict, json |-> EmptyDict]

health_check(client) == HttpRequest(client, "GET", "/health", <<>>)
get_python_versions(client) == HttpRequest(client, "GET", "/api/python-versions", <<>>)
list_outputs(client) == HttpRequest(client, "GET", "/outputs", <<>>)
delete_output(client, filename) == HttpRequest(client, "DELETE", "/outputs/", filename)
download_result(client, filename) == HttpRequest(client, "GET", "/download/", filename)

\* os.path.exists
exists(files_state, path) == files_state[path] # "missing"

\* Variant: the suffix test without lower().
is_zip_CaseSensitive(file_path) == endswith(basename(file_path), <<".", "z", "i", "p">>)

is_zip(file_path) == endswith(lower(basename(file_path)), <<".", "z", "i", "p">>)

\* files= of encrypt_file: one field, named by the suffix
SingleFileFields(file_path) ==
    IF is_zip(file_path)
    THEN <<[field |-> "file", filename |-> basename(file_path)]>>
    ELSE <<[field |-> "files", filename |-> basename(file_path)]>>

\* files= of encrypt_files: one "files" field per path, in order
MultiFileFields(file_paths) ==
    [i \in 1..Len(file_paths) |-> [field |-> "files", filename |-> basename(file_paths[i])]]

\* Variant: "is not None" in place of the truth test.
FormData_NotNone(python_version) ==
    IF python_version # None
    THEN [k \in {"python_version"} |-> python_version]
    ELSE EmptyDict

\* data= of encrypt_file and encrypt_files
FormData(python_version) ==
    IF Truthy(python_version)
    THEN [k \in {"python_version"} |-> python_version]
    ELSE EmptyDict

\* json= of encrypt_code
Payload(files, python_version) ==
    IF Truthy(python_version)
    THEN [k \in {"files", "python_version"} |->
             IF k = "files" THEN ListVal(files) ELSE python_version]
    ELSE [k \in {"files"} |-> ListVal(files)]

encrypt_file(client, file_path, python_version) ==
    [HttpRequest(client, "POST", "/api/encrypt-file", <<>>) EXCEPT
        !.encoding = "multipart",
        !.files = SingleFileFields(file_path),
        !.data = FormData(python_version)]

encrypt_files(client, file_paths, python_version) ==
    [HttpRequest(client, "POST", "/api/encrypt-file", <<>>) EXCEPT
        !.encoding = "multipart",
        !.files = MultiFileFields(file_paths),
        !.data = FormData(python_version)]

encrypt_code(client, files, python_version) ==
    [HttpRequest(client, "POST", "/api/encrypt", <<>>) EXCEPT
        !.encoding = "json",
        !.json = Payload(files, python_version)]

\* The list comprehension of encrypt_files opens the paths in order and stops at
\* the first open() that raises: the handles opened until then.
OpenedBeforeError(files_state, file_paths) ==
    LET bad == {i \in 1..Len(file_paths) : files_state[file_paths[i]] # "ok"}
    IN  IF bad = {} THEN file_paths
        ELSE SubSeq(file_paths, 1, (CHOOSE i \in bad : \A j \in bad : i <= j) - 1)

\* The files list the encrypt-code handler builds: (filename, content) per path.
CodeFiles(file_paths) ==
    [i \in 1..Len(file_paths) |-> [filename |-> basename(file_paths[i]), content |-> <<"c">>]]

(***************************************************************************)
(* What the transport can answer.                                          *)
(***************************************************************************)
TransportErrors == {"network_error", "http_error", "bad_json"}

FailedFileEntry == [filename |-> <<"b", ".", "p", "y">>, error |-> <<"E">>]

\* A decoded EncryptionResult: output_file is None when the key is absent.
EncryptionResults ==
    [success : BOOLEAN,
     failed_files : {<<>>, <<FailedFileEntry>>},
     output_file : {None, StrVal(OutputName)}]

NoResponse == [kind |-> "none", body |-> EmptyDict]

Failures == {[kind |-> k, body |-> EmptyDict] : k \in TransportErrors}

EncryptResponses == Failures \cup {[kind |-> "ok", body |-> r] : r \in EncryptionResults}

\* status, delete: the one key the handler reads; versions, list: nothing decides.
FlagResponses == Failures \cup {[kind |-> "ok", body |-> [flag |-> b]] : b \in BOOLEAN}

\* _download: the request fails, the status is not 2xx, the local write fails, or
\* the body is on disk.
DownloadOutcomes == {"network_error", "http_error", "io_error", "ok"}

(***************************************************************************)
(* The result interpretation the four encrypt handlers share.              *)
(***************************************************************************)
\* Variant: the "if failed_files: return 1" is missing.
ReturnCode_AlwaysZero(failed_files) == 0

\* "if failed_files: return 1" and the final "return 0"
ReturnCode(failed_files) == IF failed_files # <<>> THEN 1 ELSE 0

\* The lines printed for a result with success set.
SuccessLines(result) ==
    (IF result.failed_files # <<>>
     THEN <<"warn_message", "output_file", "failed_files">>
     ELSE <<"ok_message", "output_file">>) \o <<"download_url">>

\* Variant: the download block sits outside "if result.get('success')".
InterpretResult_DownloadOnFailure(result, output) ==
    IF Truthy(output) /\ result.output_file # None
    THEN [step |-> "download", code |-> -1,
          lines |-> IF result.success THEN SuccessLines(result)
                    ELSE <<"encrypt_failed_error">>]
    ELSE IF result.success
    THEN [step |-> "return", code |-> ReturnCode(result.failed_files),
          lines |-> SuccessLines(result)]
    ELSE [step |-> "return", code |-> 1, lines |-> <<"encrypt_failed_error">>]

\* Variant: "if failed_files: return 1" comes before the download block.
InterpretResult_NoDownloadOnPartial(result, output) ==
    IF result.success
    THEN IF result.failed_files # <<>>
         THEN [step |-> "return", code |-> 1, lines |-> SuccessLines(result)]
         ELSE IF Truthy(output)
         THEN IF result.output_file = None
              THEN [step |-> "raise", code |-> 1,
                    lines |-> SuccessLines(result) \o <<"request_failed">>]
              ELSE [step |-> "download", code |-> -1, lines |-> SuccessLines(result)]
         ELSE [step |-> "return", code |-> 0, lines |-> SuccessLines(result)]
    ELSE [step |-> "return", code |-> 1, lines |-> <<"encrypt_failed_error">>]

\* Variant: the download block is not guarded by "if args.output".
InterpretResult_AlwaysDownload(result, output) ==
    IF result.success
    THEN IF result.output_file = None
         THEN [step |-> "raise", code |-> 1,
               lines |-> SuccessLines(result) \o <<"request_failed">>]
         ELSE [step |-> "download", code |-> -1, lines |-> SuccessLines(result)]
    ELSE [step |-> "return", code |-> 1, lines |-> <<"encrypt_failed_error">>]

\* From the decoded result to the handler's next step: return code, raise
\* inside the try (result['output_file'] on a result without the key), or call
\* download_result.
InterpretResult(result, output) ==
    IF result.success
    THEN IF Truthy(output)
         THEN IF result.output_file = None
              THEN [step |-> "raise", code |-> 1,
                    lines |-> SuccessLines(result) \o <<"request_failed">>]
              ELSE [step |-> "download", code |-> -1, lines |-> SuccessLines(result)]
         ELSE [step |-> "return", code |-> ReturnCode(result.failed_files),
               lines |-> SuccessLines(result)]
    ELSE [step |-> "return", code |-> 1, lines |-> <<"encrypt_failed_error">>]

\* Variant: the download has a try of its own that keeps the code decided.
AfterDownload_KeepCode(result, outcome) ==
    [code |-> ReturnCode(result.failed_files),
     lines |-> IF outcome = "ok" THEN <<"downloaded_to">> ELSE <<"request_failed">>]

\* The rest of the handler once download_result returned or raised.
AfterDownload(result, outcome) ==
    IF outcome = "ok"
    THEN [code |-> ReturnCode(result.failed_files), lines |-> <<"downloaded_to">>]
    ELSE [code |-> 1, lines |-> <<"request_failed">>]

(***************************************************************************)
(* Steps of the process.                                                   *)
(***************************************************************************)
\* The values of the variables a specification does not use.
MainIdle ==
    /\ pc = "idle"
    /\ args = NoArgs
    /\ fs = EmptyDict
    /\ requests = <<>>
    /\ response = NoResponse
    /\ download = "none"
    /\ openFiles = <<>>
    /\ exitCode = -1
    /\ out = <<>>

ConfigIdle ==
    /\ cstep = "idle"
    /\ disk = [kind |-> "missing"]
    /\ saved = EmptyDict
    /\ saveOk = FALSE
    /\ loaded = [dict |-> TRUE, d |-> EmptyDict]
    /\ cli = NoArgs
    /\ resolved = [args |-> NoArgs, client |-> None]

DownloadIdle ==
    /\ dstep = "idle"
    /\ target = [filename |-> <<>>, output_dir |-> <<>>]
    /\ body = <<>>
    /\ received = <<>>
    /\ localFile = None
    /\ returned = None

Init ==
    /\ ConfigIdle
    /\ DownloadIdle
    /\ pc = "start"
    /\ args = NoArgs
    /\ fs = EmptyDict
    /\ requests = <<>>
    /\ response = NoResponse
    /\ download = "none"
    /\ openFiles = <<>>
    /\ exitCode = -1
    /\ out = <<>>

\* The process ends: a return of the handler, or an uncaught exception
\* (the interpreter prints the traceback and exits 1).
Finish(code, lines) ==
    /\ pc' = "exit"
    /\ exitCode' = code
    /\ out' = out \o lines

\* The handler hands a request to the transport and blocks.
Send(req, lines, opened) ==
    /\ pc' = "await"
    /\ requests' = Append(requests, req)
    /\ out' = out \o lines
    /\ openFiles' = opened
    /\ UNCHANGED <<args, fs, response, download, exitCode>>

\* main() up to the dispatch: load the configuration, parse the command line.
main ==
    /\ UNCHANGED <<cvars, dvars>>
    /\ pc = "start"
    /\ \E file \in ConfigFiles, argv \in Argvs :
         \E files_state \in [PathsOf(argv) -> FileStates] :
            LET config == load_config(file) IN
            IF ~config.dict
            THEN /\ Finish(1, <<"traceback">>)
                 /\ UNCHANGED <<args, fs>>
            ELSE /\ args' = ParseArgs(config.d, argv)
                 /\ fs' = files_state
                 /\ IF argv.command = ""
                    THEN Finish(0, <<"help">>)
                    ELSE /\ pc' = "dispatch"
                         /\ UNCHANGED <<exitCode, out>>
    /\ UNCHANGED <<requests, response, download, openFiles>>

\* A handler ends without touching the network.
Return(code, lines) ==
    /\ Finish(code, lines)
    /\ UNCHANGED <<args, fs, requests, response, download, openFiles>>

\* Every handler that uses the network starts with EncryptionClient(...).
HasClient == args.base_url.tag = "str"
Client == EncryptionClient(args.base_url, args.timeout)

cmd_init ==
    /\ UNCHANGED <<cvars, dvars>>
    /\ pc = "dispatch" /\ args.command = "init"
    /\ Return(0, <<"config_saved">>)

cmd_config ==
    /\ UNCHANGED <<cvars, dvars>>
    /\ pc = "dispatch" /\ args.command = "config"
    /\ Return(0, <<"config_shown">>)

cmd_status ==
    /\ UNCHANGED <<cvars, dvars>>
    /\ pc = "dispatch" /\ args.command = "status"
    /\ IF ~HasClient THEN Return(1, <<"traceback">>)
       ELSE Send(health_check(Client), <<>>, <<>>)

cmd_versions ==
    /\ UNCHANGED <<cvars, dvars>>
    /\ pc = "dispatch" /\ args.command = "versions"
    /\ IF ~HasClient THEN Return(1, <<"traceback">>)
       ELSE Send(get_python_versions(Client), <<>>, <<>>)

cmd_list ==
    /\ UNCHANGED <<cvars, dvars>>
    /\ pc = "dispatch" /\ args.command = "list"
    /\ IF ~HasClient THEN Return(1, <<"traceback">>)
       ELSE Send(list_outputs(Client), <<>>, <<>>)

cmd_delete ==
    /\ UNCHANGED <<cvars, dvars>>
    /\ pc = "dispatch" /\ args.command = "delete"
    /\ IF ~HasClient THEN Return(1, <<"traceback">>)
       ELSE Send(delete_output(Client, args.filename), <<>>, <<>>)

\* "使用 Python 版本" is printed when a version is set.
Banner(first) ==
    IF Truthy(args.python_version) THEN <<first, "using_version">> ELSE <<first>>

\* Variant: only the first path is checked and opened before the POST.
UploadCheck_FirstOnly(files_state, file_paths) ==
    IF ~exists(files_state, file_paths[1]) THEN "not_found"
    ELSE IF files_state[file_paths[1]] # "ok" THEN "open_error"
    ELSE "ok"

\* encrypt_file and encrypt_files before the POST: the existence check, then
\* the open() calls.
UploadCheck(files_state, file_paths) ==
    IF \E i \in 1..Len(file_paths) : ~exists(files_state, file_paths[i]) THEN "not_found"
    ELSE IF OpenedBeforeError(files_state, file_paths) # file_paths THEN "open_error"
    ELSE "ok"

\* The read loop of the encrypt-code handler: the first path that is missing
\* ends the handler, the first that cannot be read raises outside any try.
ReadCheck(files_state, file_paths) ==
    LET bad == {i \in 1..Len(file_paths) : files_state[file_paths[i]] # "ok"}
    IN  IF bad = {} THEN "ok"
        ELSE IF exists(files_state, file_paths[CHOOSE i \in bad : \A j \in bad : i <= j])
             THEN "read_error"
             ELSE "not_found"

cmd_encrypt_file ==
    /\ UNCHANGED <<cvars, dvars>>
    /\ pc = "dispatch" /\ args.command = "encrypt-file"
    /\ IF ~HasClient THEN Return(1, <<"traceback">>)
       ELSE LET check == UploadCheck(fs, <<args.file>>) IN
            IF check # "ok"
            THEN Return(1, Banner("uploading") \o <<"request_failed">>)
            ELSE Send(encrypt_file(Client, args.file, args.python_version),
                      Banner("uploading"), <<args.file>>)

\* A failing open() leaves the handles opened before it open: the try/finally
\* that closes them starts after the list is built.
cmd_encrypt_files ==
    /\ UNCHANGED <<cvars, dvars>>
    /\ pc = "dispatch" /\ args.command = "encrypt-files"
    /\ IF ~HasClient THEN Return(1, <<"traceback">>)
       ELSE LET check == UploadCheck(fs, args.files) IN
            IF check = "not_found"
            THEN Return(1, Banner("uploading") \o <<"request_failed">>)
            ELSE IF check = "open_error"
            THEN /\ Finish(1, Banner("uploading") \o <<"request_failed">>)
                 /\ openFiles' = OpenedBeforeError(fs, args.files)
                 /\ UNCHANGED <<args, fs, requests, response, download>>
            ELSE Send(encrypt_files(Client, args.files, args.python_version),
                      Banner("uploading"), args.files)

cmd_encrypt_code ==
    /\ UNCHANGED <<cvars, dvars>>
    /\ pc = "dispatch" /\ args.command = "encrypt-code"
    /\ IF ~HasClient THEN Return(1, <<"traceback">>)
       ELSE LET check == ReadCheck(fs, args.files) IN
            IF check = "not_found" THEN Return(1, <<"file_not_found">>)
            ELSE IF check = "read_error" THEN Return(1, <<"traceback">>)
            ELSE Send(encrypt_code(Client, CodeFiles(args.files), args.python_version),
                      Banner("encrypting"), <<>>)

cmd_encrypt_text ==
    /\ UNCHANGED <<cvars, dvars>>
    /\ pc = "dispatch" /\ args.command = "encrypt-text"
    /\ IF ~HasClient THEN Return(1, <<"traceback">>)
       ELSE Send(encrypt_code(Client,
                     <<[filename |-> args.name, content |-> args.content]>>,
                     args.python_version),
                 Banner("encrypting"), <<>>)

cmd_download ==
    /\ UNCHANGED <<cvars, dvars>>
    /\ pc = "dispatch" /\ args.command = "download"
    /\ IF ~HasClient THEN Return(1, <<"traceback">>)
       ELSE /\ pc' = "await_download"
            /\ requests' = Append(requests, download_result(Client, args.filename))
            /\ UNCHANGED <<args, fs, response, download, openFiles, exitCode, out>>

\* The transport answers the POST of an encrypt handler: the client operation
\* returns or raises (closing its handles), the handler interprets the result.
EncryptResponse ==
    /\ UNCHANGED <<cvars, dvars>>
    /\ pc = "await" /\ args.command \in EncryptCommands
    /\ \E r \in EncryptResponses :
         /\ response' = r
         /\ openFiles' = <<>>
         /\ IF r.kind # "ok"
            THEN /\ Finish(1, <<"request_failed">>)
                 /\ UNCHANGED requests
            ELSE LET i == InterpretResult(r.body, args.output) IN
                 IF i.step = "download"
                 THEN /\ pc' = "await_download"
                      /\ requests' =
                            Append(requests, download_result(Client, r.body.output_file.v))
                      /\ out' = out \o i.lines
                      /\ UNCHANGED exitCode
                 ELSE /\ Finish(i.code, i.lines)
                      /\ UNCHANGED requests
    /\ UNCHANGED <<args, fs, download>>

\* download_result returns or raises inside the try of an encrypt handler.
EncryptDownloadDone ==
    /\ UNCHANGED <<cvars, dvars>>
    /\ pc = "await_download" /\ args.command \in EncryptCommands
    /\ \E o \in DownloadOutcomes :
         /\ download' = o
         /\ LET a == AfterDownload(response.body, o) IN Finish(a.code, a.lines)
    /\ UNCHANGED <<args, fs, requests, response, openFiles>>

\* download_result returns or raises in the download handler.
DownloadDone ==
    /\ UNCHANGED <<cvars, dvars>>
    /\ pc = "await_download" /\ args.command = "download"
    /\ \E o \in DownloadOutcomes :
         /\ download' = o
         /\ IF o = "ok" THEN Finish(0, <<"downloaded_to">>)
            ELSE Finish(1, <<"download_failed">>)
    /\ UNCHANGED <<args, fs, requests, response, openFiles>>

\* The exit code of status, versions, list and delete for an answer.
ManagementCode(command, r) ==
    IF r.kind # "ok" THEN 1
    ELSE IF command \in {"status", "delete"} /\ ~r.body.flag THEN 1
    ELSE 0

ManagementResponse ==
    /\ UNCHANGED <<cvars, dvars>>
    /\ pc = "await" /\ args.command \in {"status", "versions", "list", "delete"}
    /\ \E r \in FlagResponses :
         /\ response' = r
         /\ Finish(ManagementCode(args.command, r), <<"printed">>)
    /\ UNCHANGED <<args, fs, requests, download, openFiles>>

Next ==
    \/ main
    \/ cmd_init
    \/ cmd_config
    \/ cmd_status
    \/ cmd_versions
    \/ cmd_list
    \/ cmd_delete
    \/ cmd_download
    \/ cmd_encrypt_file
    \/ cmd_encrypt_files
    \/ cmd_encrypt_code
    \/ cmd_encrypt_text
    \/ EncryptResponse
    \/ EncryptDownloadDone
    \/ DownloadDone
    \/ ManagementResponse

Spec == Init /\ [][Next]_vars

(***************************************************************************)
(* Properties.                                                             *)
(***************************************************************************)
Exited == pc = "exit"
EncryptExited == Exited /\ args.command \in EncryptCommands
Decoded == args.command \in EncryptCommands /\ response.kind = "ok"
FullSuccess == Decoded /\ response.body.success /\ response.body.failed_files = <<>>
PartialFailure == Decoded /\ response.body.success /\ response.body.failed_files # <<>>
HardFailure == Decoded /\ ~response.body.success
DownloadFailed == download \in DownloadOutcomes \ {"ok"}
DownloadRequests == {i \in 1..Len(requests) : requests[i].endpoint = "/download/"}
LastLine == IF out = <<>> THEN "" ELSE out[Len(out)]

\* C1 as stated: an encrypt handler exits 0 exactly when the decoded result
\* has success set and no failed files, whatever --output and the download did.
C1_ExitZeroIffFullSuccess ==
    EncryptExited => (exitCode = 0 <=> FullSuccess)

\* C1, amended: an encrypt handler exits 0 exactly when the decoded result has
\* success set and no failed files and, if an output directory was given, the
\* artifact was downloaded; every other outcome exits 1.
C1_ExitZeroIffFullSuccessAndDownloaded ==
    EncryptExited =>
        /\ exitCode \in {0, 1}
        /\ exitCode = 0 <=> (FullSuccess /\ (Truthy(args.output) => download = "ok"))

C1_Witness ==
    EncryptExited /\ FullSuccess /\ Truthy(args.output) /\ download = "ok" /\ exitCode = 0

\* C2 as stated: when the download of an encrypt handler fails, the exit code
\* is the one the result decided: 0 for full success, 1 for partial failure.
C2_DownloadFailureKeepsCode ==
    (EncryptExited /\ DownloadFailed) =>
        exitCode = (IF response.body.failed_files # <<>> THEN 1 ELSE 0)

\* C2, amended: when the download of an encrypt handler fails, the failure is
\* reported and the handler exits 1, after a partial failure (where 1 was
\* decided already) and after a full success (where it replaces the 0).
C2_DownloadFailureExitsOne ==
    (EncryptExited /\ DownloadFailed) =>
        /\ exitCode = 1
        /\ LastLine = "request_failed"
        /\ FullSuccess \/ PartialFailure

C2_Witness ==
    EncryptExited /\ DownloadFailed /\ FullSuccess /\ exitCode = 1

\* C3: once an encrypt handler has decoded a result with success false, no
\* download request is sent (with --output given or not): the handler has
\* printed the server's error and exited 1, the upload its only request.
C3_NoDownloadAfterHardFailure ==
    HardFailure =>
        /\ DownloadRequests = {}
        /\ Len(requests) = 1
        /\ download = "none"
        /\ Exited /\ exitCode = 1
        /\ LastLine = "encrypt_failed_error"

C3_Witness ==
    /\ HardFailure /\ Exited
    /\ Truthy(args.output) /\ response.body.output_file # None

\* C4: after a result with success set and failed files, with an output
\* directory given (a non-empty --output) and the artifact named in the result,
\* the download request is sent after the upload, and the handler exits 1
\* when the download succeeds and when it fails.
C4_DownloadAfterPartialFailure ==
    (PartialFailure /\ Truthy(args.output) /\ response.body.output_file # None) =>
        /\ Len(requests) = 2
        /\ DownloadRequests = {2}
        /\ requests[2].arg = response.body.output_file.v
        /\ pc \in {"await_download", "exit"}
        /\ Exited => (download # "none" /\ exitCode = 1)

C4_Witness ==
    PartialFailure /\ Exited /\ download = "ok" /\ exitCode = 1

\* C5 as stated: an invocation sends at most one HTTP request.
C5_AtMostOneRequest == Len(requests) <= 1

\* C5, amended: an invocation sends at most two HTTP requests, and two only
\* in an encrypt handler with an output directory given, whose upload was
\* answered with success set: the upload, then the download of the artifact.
\* Every other invocation sends at most one.
C5_AtMostUploadAndDownload ==
    /\ Len(requests) <= 2
    /\ Len(requests) = 2 =>
          /\ Decoded /\ response.body.success /\ Truthy(args.output)
          /\ requests[1].method = "POST"
          /\ DownloadRequests = {2}

C5_Witness == Len(requests) = 2 /\ Exited

\* C6: in encrypt-file, encrypt-files and encrypt-code, when a path on the
\* command line does not exist, no HTTP request is sent at any point, and the
\* handler, once it has run, has exited 1.
AnyPathMissing ==
    /\ args.command \in {"encrypt-file", "encrypt-files", "encrypt-code"}
    /\ \E p \in DOMAIN fs : fs[p] = "missing"

C6_MissingFileNoRequest ==
    AnyPathMissing =>
        /\ requests = <<>>
        /\ pc \in {"dispatch", "exit"}
        /\ Exited => exitCode = 1

C6_Witness ==
    /\ AnyPathMissing /\ Exited /\ args.base_url.tag = "str"
    /\ args.command = "encrypt-files"
    /\ Len(args.files) > 1 /\ fs[args.files[1]] = "ok"

\* C7: when encrypt-files has ended, on any path, every file handle it opened
\* is closed.
C7_HandlesReleased ==
    (Exited /\ args.command = "encrypt-files") => openFiles = <<>>

\* C8: the upload of encrypt-file is one POST /api/encrypt-file with exactly
\* one file field, named "file" exactly when the path ends in ".zip" in any
\* letter case and "files" otherwise; encrypt-files names every field "files".
EndsInZip(p) ==
    /\ Len(p) >= 4
    /\ p[Len(p) - 3] = "."
    /\ p[Len(p) - 2] \in {"z", "Z"}
    /\ p[Len(p) - 1] \in {"i", "I"}
    /\ p[Len(p)] \in {"p", "P"}

C8_FieldNameBySuffix ==
    /\ (args.command = "encrypt-file" /\ requests # <<>>) =>
          /\ requests[1].method = "POST"
          /\ requests[1].endpoint = "/api/encrypt-file"
          /\ Len(requests[1].files) = 1
          /\ requests[1].files[1].field = (IF EndsInZip(args.file) THEN "file" ELSE "files")
    /\ (args.command = "encrypt-files" /\ requests # <<>>) =>
          /\ Len(requests[1].files) = Len(args.files)
          /\ \A i \in 1..Len(args.files) : requests[1].files[i].field = "files"

C8_Witness ==
    /\ args.command = "encrypt-file" /\ requests # <<>>
    /\ args.file = <<"P", ".", "Z", "I", "P">>
    /\ requests[1].files[1].field = "file"

\* C9: the upload of encrypt-file, encrypt-files, encrypt-code and encrypt-text
\* carries a python_version field exactly when a version was supplied (None
\* and the empty string are "not supplied"), with the supplied value, as a
\* form field of the multipart uploads and as a key of the JSON body.
CarriedVersion(req) ==
    IF req.encoding = "json" THEN req.json ELSE req.data

C9_PythonVersionField ==
    (args.command \in EncryptCommands /\ requests # <<>>) =>
        LET sent == CarriedVersion(requests[1]) IN
        /\ "python_version" \in DOMAIN sent <=> Truthy(args.python_version)
        /\ "python_version" \in DOMAIN sent => sent["python_version"] = args.python_version
        /\ requests[1].encoding = "json" => requests[1].data = EmptyDict
        /\ requests[1].encoding = "multipart" => requests[1].json = EmptyDict

C9_Witness ==
    /\ args.command = "encrypt-files" /\ requests # <<>>
    /\ "python_version" \in DOMAIN requests[1].data
    /\ requests[1].data["python_version"] = StrVal(<<"3", ".", "9">>)

\* C10: every request is sent with a non-empty base_url and a timeout that is
\* a positive number.
C10_ResolvedBeforeRequest ==
    \A i \in 1..Len(requests) :
        /\ requests[i].base_url # <<>>
        /\ requests[i].timeout.tag = "int"
        /\ requests[i].timeout.v > 0

(***************************************************************************)
(* The configuration file as text: json.dump and json.load.                *)
(* The text of an object is the literal written for each key.              *)
(***************************************************************************)
DigitChars == <<"0", "1", "2", "3", "4", "5", "6", "7", "8", "9">>

\* The decimal digits of a natural number.
RECURSIVE ToDigits(_)
ToDigits(n) ==
    IF n < 10 THEN <<DigitChars[n + 1]>>
    ELSE Append(ToDigits(n \div 10), DigitChars[(n % 10) + 1])

DigitValue(c) == (CHOOSE i \in 1..10 : DigitChars[i] = c) - 1

RECURSIVE FromDigits(_)
FromDigits(ds) ==
    IF Len(ds) = 1 THEN DigitValue(ds[1])
    ELSE 10 * FromDigits(SubSeq(ds, 1, Len(ds) - 1)) + DigitValue(ds[Len(ds)])

\* The body of a JSON string: the quote and the backslash are escaped.
RECURSIVE Escape(_)
Escape(str) ==
    IF str = <<>> THEN <<>>
    ELSE (IF str[1] \in {"\"", "\\"} THEN <<"\\", str[1]>> ELSE <<str[1]>>)
             \o Escape(Tail(str))

RECURSIVE Unescape(_)
Unescape(str) ==
    IF str = <<>> THEN <<>>
    ELSE IF str[1] = "\\" /\ Len(str) > 1
         THEN <<str[2]>> \o Unescape(SubSeq(str, 3, Len(str)))
         ELSE <<str[1]>> \o Unescape(Tail(str))

\* The literal json.dump writes for a value.
EncodeValue(x) ==
    CASE x.tag = "none" -> <<"n", "u", "l", "l">>
      [] x.tag = "int" -> IF x.v < 0 THEN <<"-">> \o ToDigits(-x.v) ELSE ToDigits(x.v)
      [] x.tag = "str" -> <<"\"">> \o Escape(x.v) \o <<"\"">>

\* The value json.load reads from a literal.
DecodeValue(lit) ==
    IF lit = <<"n", "u", "l", "l">> THEN None
    ELSE IF lit[1] = "\"" THEN StrVal(Unescape(SubSeq(lit, 2, Len(lit) - 1)))
    ELSE IF lit[1] = "-" THEN IntVal(-FromDigits(Tail(lit)))
    ELSE IntVal(FromDigits(lit))

json_dump(d) == [k \in DOMAIN d |-> EncodeValue(d[k])]
json_load(text) == [k \in DOMAIN text |-> DecodeValue(text[k])]

\* The file load_config finds, from what is on disk.
ReadConfig(on_disk) ==
    IF on_disk.kind = "text"
    THEN [kind |-> "object", obj |-> json_load(on_disk.text)]
    ELSE [kind |-> on_disk.kind, obj |-> EmptyDict]

\* JSON objects with any subset of the three keys and, or not, a key of
\* their own.
ExtraKey == "note"
ExtraValue == StrVal(<<"a", "\"", "\\">>)

ObjectsOnDisk ==
    JsonObjects \cup
        {[k \in DOMAIN o \cup {ExtraKey} |-> IF k = ExtraKey THEN ExtraValue ELSE o[k]] :
            o \in JsonObjects}

DiskContents ==
    {[kind |-> k] : k \in {"missing", "invalid", "nondict", "keylist"}}
        \cup {[kind |-> "text", text |-> json_dump(o)] : o \in ObjectsOnDisk}

\* load_config(config_path) on the file on disk
LoadConfig ==
    /\ cstep = "start"
    /\ loaded' = load_config(ReadConfig(disk))
    /\ cstep' = "loaded"
    /\ UNCHANGED <<disk, saved, saveOk, cli, resolved>>
    /\ UNCHANGED <<mainvars, dvars>>

\* The configurations handed to save_config: the three keys, or some of them.
SavedBaseUrls == {StrVal(DefaultBaseUrl), StrVal(<<"u", "/">>), StrVal(<<"a", "\"", "\\">>)}
SavedPythonVersions == {None, StrVal(<<"3", ".", "9">>)}
SavedTimeouts == {IntVal(1), IntVal(60), IntVal(DefaultTimeout)}

Configurations ==
    [base_url : SavedBaseUrls, python_version : SavedPythonVersions, timeout : SavedTimeouts]

SavedConfigs ==
    {[k \in ks |-> c[k]] : c \in Configurations, ks \in SUBSET ConfigKeys}

\* save_config: mkdir or open() fails and the file stays as it was, the write
\* fails and leaves a truncated file, or the JSON text is written.
SaveOutcomes == {"open_error", "write_error", "ok"}

\* Variant: every value is written through str().
save_config_AsStrings(on_disk, cfg, outcome) ==
    [ok |-> outcome = "ok",
     disk |-> [kind |-> "text",
               text |-> [k \in DOMAIN cfg |->
                            <<"\"">> \o (IF cfg[k].tag = "int" THEN ToDigits(cfg[k].v)
                                         ELSE IF cfg[k].tag = "none" THEN <<"N", "o", "n", "e">>
                                         ELSE Escape(cfg[k].v)) \o <<"\"">>]]]

save_config(on_disk, cfg, outcome) ==
    CASE outcome = "ok" -> [ok |-> TRUE, disk |-> [kind |-> "text", text |-> json_dump(cfg)]]
      [] outcome = "open_error" -> [ok |-> FALSE, disk |-> on_disk]
      [] outcome = "write_error" -> [ok |-> FALSE, disk |-> [kind |-> "invalid"]]

SaveConfig ==
    /\ cstep = "start"
    /\ \E c \in SavedConfigs, o \in SaveOutcomes :
         LET r == save_config(disk, c, o) IN
         /\ saved' = c
         /\ saveOk' = r.ok
         /\ disk' = r.disk
    /\ cstep' = "saved"
    /\ UNCHANGED <<loaded, cli, resolved>>
    /\ UNCHANGED <<mainvars, dvars>>

\* load_config(config_path) on the file save_config left
ReloadConfig ==
    /\ cstep = "saved"
    /\ loaded' = load_config(ReadConfig(disk))
    /\ cstep' = "reloaded"
    /\ UNCHANGED <<disk, saved, saveOk, cli, resolved>>
    /\ UNCHANGED <<mainvars, dvars>>

\* main() after load_config: parse_args with the defaults taken from the
\* configuration, and the client a handler builds from the namespace.
ResolveArgs ==
    /\ cstep = "loaded" /\ loaded.dict
    /\ \E argv \in Argvs :
         LET a == ParseArgs(loaded.d, argv) IN
         /\ cli' = argv
         /\ resolved' =
               [args |-> a,
                client |-> IF a.base_url.tag = "str"
                           THEN EncryptionClient(a.base_url, a.timeout)
                           ELSE None]
    /\ cstep' = "resolved"
    /\ UNCHANGED <<disk, saved, saveOk, loaded>>
    /\ UNCHANGED <<mainvars, dvars>>

InitConfig ==
    /\ MainIdle
    /\ DownloadIdle
    /\ cstep = "start"
    /\ disk \in DiskContents
    /\ saved = EmptyDict
    /\ saveOk = FALSE
    /\ loaded = [dict |-> TRUE, d |-> EmptyDict]
    /\ cli = NoArgs
    /\ resolved = [args |-> NoArgs, client |-> None]

NextConfig ==
    \/ LoadConfig
    \/ SaveConfig
    \/ ReloadConfig
    \/ ResolveArgs

SpecConfig == InitConfig /\ [][NextConfig]_vars

(***************************************************************************)
(* Properties of load_config, save_config and the argument defaults.       *)
(***************************************************************************)
FileIsObject == disk.kind = "text"
FileHas(k) == FileIsObject /\ k \in DOMAIN disk.text
FileValue(k) == DecodeValue(disk.text[k])

\* C11: for a configuration file that is a JSON object, load_config returns
\* a dict in which every key of the file has the file's value and each of
\* base_url, python_version, timeout the file lacks has its built-in default
\* (http://localhost:5000, None, 300).
C11_MissingKeysGetDefaults ==
    (cstep = "loaded" /\ FileIsObject) =>
        /\ loaded.dict
        /\ DOMAIN loaded.d = DOMAIN disk.text \cup {"base_url", "python_version", "timeout"}
        /\ \A k \in DOMAIN disk.text : loaded.d[k] = FileValue(k)
        /\ ~FileHas("base_url") => loaded.d["base_url"] = StrVal(DefaultBaseUrl)
        /\ ~FileHas("python_version") => loaded.d["python_version"] = None
        /\ ~FileHas("timeout") => loaded.d["timeout"] = IntVal(300)

C11_Witness ==
    /\ cstep = "loaded" /\ FileIsObject
    /\ ~FileHas("timeout") /\ loaded.d["timeout"] = IntVal(300)
    /\ FileHas("base_url") /\ loaded.d["base_url"] = StrVal(<<"u", "/">>)
    /\ FileHas("python_version") /\ loaded.d["python_version"] = None

\* C12: when save_config has written a configuration with base_url,
\* python_version and timeout set and returned True, load_config on the same
\* path returns a configuration equal to it.
C12_SaveThenLoad ==
    (cstep = "reloaded" /\ saveOk /\ DOMAIN saved = ConfigKeys) =>
        /\ loaded.dict
        /\ loaded.d = saved

C12_Witness ==
    /\ cstep = "reloaded" /\ saveOk /\ DOMAIN saved = ConfigKeys
    /\ saved["base_url"] = StrVal(<<"a", "\"", "\\">>)
    /\ saved["python_version"] = None
    /\ loaded.d = saved

\* C14: the base_url and timeout the client is built from, and the
\* python_version an encrypt handler passes on, are the value given on the
\* command line if one was given, otherwise the value of the key in the
\* configuration file if the file has the key, otherwise the built-in default.
Effective(k, default) ==
    IF cli[k] # None THEN cli[k]
    ELSE IF FileHas(k) THEN FileValue(k)
    ELSE default

C14_Precedence ==
    cstep = "resolved" =>
        /\ resolved.args.base_url = Effective("base_url", StrVal(DefaultBaseUrl))
        /\ resolved.args.timeout = Effective("timeout", IntVal(DefaultTimeout))
        /\ cli.command \in EncryptCommands =>
              resolved.args.python_version = Effective("python_version", None)
        /\ resolved.client # None =>
              /\ resolved.client.timeout = Effective("timeout", IntVal(DefaultTimeout))
              /\ resolved.client.base_url =
                    rstrip(Effective("base_url", StrVal(DefaultBaseUrl)).v, "/")

C14_Witness ==
    /\ cstep = "resolved" /\ cli.command = "encrypt-file"
    /\ cli.timeout = IntVal(5) /\ FileHas("timeout") /\ FileValue("timeout") = IntVal(60)
    /\ resolved.client # None /\ resolved.client.timeout = IntVal(5)
    /\ cli.base_url = None /\ FileHas("base_url") /\ resolved.client.base_url = <<"u">>
    /\ cli.python_version = None /\ ~FileHas("python_version")
    /\ resolved.args.python_version = None

(***************************************************************************)
(* EncryptionClient.download_result and _download, chunk by chunk.         *)
(***************************************************************************)
Bytes == {"a", "b"}
Bodies == UNION {[1..n -> Bytes] : n \in 0..MaxBody}
OutputDirs == {<<".">>, <<"d">>, <<"d", "/">>}
OldContent == <<"o", "l", "d">>

\* os.path.join(output_dir, filename)
os_path_join(output_dir, filename) ==
    IF filename # <<>> /\ filename[1] = "/" THEN filename
    ELSE IF output_dir = <<>> \/ output_dir[Len(output_dir)] = "/" THEN output_dir \o filename
    ELSE output_dir \o <<"/">> \o filename

\* Variant: the file is opened for appending.
open_ab(existing) == IF existing = None THEN StrVal(<<>>) ELSE existing

\* open(output_path, 'wb'): the file exists and is empty.
open_wb(existing) == StrVal(<<>>)

\* f.write(chunk)
write(file, chunk) == StrVal(file.v \o chunk)

RECURSIVE Concat(_)
Concat(chunks) ==
    IF chunks = <<>> THEN <<>> ELSE chunks[1] \o Concat(Tail(chunks))

\* What iter_content has not yielded yet.
Remaining == SubSeq(body, Len(Concat(received)) + 1, Len(body))

\* requests.get, raise_for_status, os.makedirs and open: any of them raises,
\* or the file is open and empty.
StartOutcomes == {"network_error", "http_error", "mkdir_error", "open_error", "ok"}

StartDownload ==
    /\ dstep = "start"
    /\ \E o \in StartOutcomes :
         IF o = "ok"
         THEN /\ localFile' = open_wb(localFile)
              /\ dstep' = "streaming"
         ELSE /\ dstep' = "failed"
              /\ UNCHANGED localFile
    /\ UNCHANGED <<target, body, received, returned>>
    /\ UNCHANGED <<mainvars, cvars>>

\* One turn of the loop: iter_content yields the next chunk, f.write appends it.
WriteChunk ==
    /\ dstep = "streaming" /\ Remaining # <<>>
    /\ \E n \in 1..ChunkSize :
         /\ n <= Len(Remaining)
         /\ received' = Append(received, SubSeq(Remaining, 1, n))
         /\ localFile' = write(localFile, SubSeq(Remaining, 1, n))
    /\ UNCHANGED <<dstep, target, body, returned>>
    /\ UNCHANGED <<mainvars, cvars>>

\* The connection or the write fails in the loop: the exception leaves the
\* function, the file keeps what was written.
StreamError ==
    /\ dstep = "streaming" /\ Remaining # <<>>
    /\ dstep' = "failed"
    /\ UNCHANGED <<target, body, received, localFile, returned>>
    /\ UNCHANGED <<mainvars, cvars>>

\* The body is exhausted: the file is closed and the path returned.
FinishDownload ==
    /\ dstep = "streaming" /\ Remaining = <<>>
    /\ dstep' = "done"
    /\ returned' = StrVal(os_path_join(target.output_dir, target.filename))
    /\ UNCHANGED <<target, body, received, localFile>>
    /\ UNCHANGED <<mainvars, cvars>>

InitDownload ==
    /\ MainIdle
    /\ ConfigIdle
    /\ dstep = "start"
    /\ target \in [filename : {OutputName}, output_dir : OutputDirs]
    /\ body \in Bodies
    /\ received = <<>>
    /\ localFile \in {None, StrVal(OldContent)}
    /\ returned = None

NextDownload ==
    \/ StartDownload
    \/ WriteChunk
    \/ StreamError
    \/ FinishDownload

SpecDownload == InitDownload /\ [][NextDownload]_vars

\* The path download_result is to return: output_dir, a separator unless
\* output_dir ends in one, and filename.
ExpectedPath ==
    IF target.output_dir[Len(target.output_dir)] = "/"
    THEN target.output_dir \o target.filename
    ELSE target.output_dir \o <<"/">> \o target.filename

\* C13: when download_result has returned, the file at output_dir/filename
\* holds the chunks of the response body in the order they arrived, which is
\* the whole body, for every body (the empty one included) and every split
\* of it into chunks; what the file held before is gone.
C13_FileIsBody ==
    dstep = "done" =>
        /\ localFile # None
        /\ localFile.v = Concat(received)
        /\ localFile.v = body
        /\ returned = StrVal(ExpectedPath)

C13_Witness ==
    /\ dstep = "done"
    /\ Len(body) > ChunkSize /\ Len(received) > 1
    /\ \E i \in 1..Len(received) : Len(received[i]) = ChunkSize
    /\ \E i \in 1..Len(received) : Len(received[i]) < ChunkSize
    /\ localFile.v = body

====
